---- MODULE Spec2Model ----
(***************************************************************************)
(* The data-analyst agent: the tool-call loop of the console front-end     *)
(* (agent.py, run_agent) and of the chat front-end (app.py, on_message),   *)
(* the sandbox executors (execute_python) both of them call, the reset of  *)
(* a chat session (app.py, reset_data), and the resolution of prompt       *)
(* versions (agent.py: load_prompt, main; compare.py: compare_prompts).    *)
(*                                                                         *)
(* Texts are sequences of tokens.  A token is one character (" ", "\n",    *)
(* "x", "e"), the word "warning" as a unit ("w" in lower case, "W" in any  *)
(* other case), or one of the fixed texts of the source as a unit.         *)
(***************************************************************************)
EXTENDS Integers, Sequences, FiniteSets, TLC

\* ------------------------------------------------------------- bounds

\* Model requests one session may issue over its life (single-session runs).
MaxRequests == 3
\* Model requests per session when two chat sessions run side by side.
MaxParRequests == 2
\* Questions one session may ask.
MaxQuestions == 2
\* Longest standard output / standard error SpecFmt enumerates.
MaxOut == 2
MaxErr == 3
\* Longest list of prompt versions, and most questions, of one comparison.
MaxVersions == 3
MaxCmpQuestions == 2
\* Resets (the reset button, or the upload of a dataset) of one chat session.
MaxResets == 1

\* ------------------------------------------------------------- texts

Chars == {"x", " ", "\n", "w", "W"}
Whitespace == {" ", "\n"}

NoOutput == <<"(no output)">>
StderrDelim == <<"\n", "[stderr]: ">>
AgentTimeoutText == <<"[error]: execution timed out">>
AppTimeoutText == <<"[Error]: Code execution timed out (30s limit)">>
AgentErrorText == <<"[error]: ", "e">>
AppErrorText == <<"[Error]: ", "e">>

RECURSIVE StrsOfLen(_)
StrsOfLen(n) == IF n = 0 THEN {<<>>}
                ELSE {Append(s, c) : s \in StrsOfLen(n - 1), c \in Chars}

RECURSIVE StrsUpTo(_)
StrsUpTo(n) == IF n = 0 THEN {<<>>} ELSE StrsOfLen(n) \cup StrsUpTo(n - 1)

\* str.strip() is non-empty: some character is not whitespace.
StripNonEmpty(s) == \E i \in 1..Len(s) : s[i] \notin Whitespace

\* str.lower(), on the tokens that have a case.
LowerTok(c) == IF c = "W" THEN "w" ELSE c
Lower(s) == [i \in 1..Len(s) |-> LowerTok(s[i])]

\* 'warning' in line
HasWarning(line) == \E i \in 1..Len(line) : line[i] = "w"

\* str.split('\n'): the pieces between newlines, empty pieces kept.
RECURSIVE SplitFrom(_, _, _)
SplitFrom(s, i, cur) ==
    IF i > Len(s) THEN <<cur>>
    ELSE IF s[i] = "\n" THEN <<cur>> \o SplitFrom(s, i + 1, <<>>)
    ELSE SplitFrom(s, i + 1, Append(cur, s[i]))
Split(s) == SplitFrom(s, 1, <<>>)

\* chr(10).join(lines)
RECURSIVE Join(_)
Join(lines) ==
    IF Len(lines) = 0 THEN <<>>
    ELSE IF Len(lines) = 1 THEN lines[1]
    ELSE lines[1] \o <<"\n">> \o Join(Tail(lines))

\* [line for line in lines if line and 'warning' not in line.lower()]
KeepLineNoLower(line) == line /= <<>> /\ ~HasWarning(line)
KeepLine(line) == line /= <<>> /\ ~HasWarning(Lower(line))

RECURSIVE FilterLines(_)
FilterLines(lines) ==
    IF Len(lines) = 0 THEN <<>>
    ELSE (IF KeepLine(lines[1]) THEN <<lines[1]>> ELSE <<>>)
         \o FilterLines(Tail(lines))

\* output if output.strip() else "(no output)"
OrNoOutputIfEmpty(output) == IF output /= <<>> THEN output ELSE NoOutput
OrNoOutput(output) == IF StripNonEmpty(output) THEN output ELSE NoOutput

\* agent.py: output = stdout; if stderr: output += "\n[stderr]: " + stderr
AgentOutput(out, err) ==
    OrNoOutput(IF err /= <<>> THEN out \o StderrDelim \o err ELSE out)

\* app.py: the same, on the lines of stderr that pass the warning filter
AppOutput(out, err) ==
    LET stderr_lines == IF err /= <<>> THEN FilterLines(Split(err)) ELSE <<>>
    IN  OrNoOutput(IF stderr_lines /= <<>>
                   THEN out \o StderrDelim \o Join(stderr_lines)
                   ELSE out)

\* ------------------------------------------------------------- data model

\* A snippet stands for what its child process does: the text it writes to
\* standard output and standard error, whether it saves the chart file, and
\* whether it then keeps running past the time limit instead of exiting.
Snippet(out, err, chart, hang) ==
    [out |-> out, err |-> err, chart |-> chart, hang |-> hang]

SnPrint == Snippet(<<"x", "\n">>, <<>>, FALSE, FALSE)
SnChart == Snippet(<<>>, <<"W", "\n">>, TRUE, FALSE)
SnFault == Snippet(<<"x">>, <<"e", "\n">>, FALSE, FALSE)
SnHang  == Snippet(<<"x">>, <<"e">>, TRUE, TRUE)
NoSnippet == Snippet(<<>>, <<>>, FALSE, FALSE)

\* block.input: "code" and "goal" may each be missing from the dictionary.
Input(hasCode, code, hasGoal, goal) ==
    [hasCode |-> hasCode, code |-> code, hasGoal |-> hasGoal, goal |-> goal]
NoInput == Input(FALSE, NoSnippet, FALSE, "")

\* Content blocks of a model response.
TextBlock(t) ==
    [type |-> "text", text |-> t, id |-> 0, name |-> "", input |-> NoInput]
ToolUse(name, input) ==
    [type |-> "tool_use", text |-> <<>>, id |-> 0, name |-> name, input |-> input]

Ta == TextBlock(<<"a">>)
Tb == TextBlock(<<"b">>)
Run(sn) == ToolUse("execute_python", Input(TRUE, sn, TRUE, "g"))
RunNoGoal(sn) == ToolUse("execute_python", Input(TRUE, sn, FALSE, ""))
OtherTool(sn) == ToolUse("other_tool", Input(TRUE, sn, TRUE, "g"))
OtherNoCode == ToolUse("other_tool", Input(FALSE, NoSnippet, FALSE, ""))

\* The tool calls of a content, in order.
RECURSIVE ToolCalls(_)
ToolCalls(content) ==
    IF Len(content) = 0 THEN <<>>
    ELSE (IF content[1].type = "tool_use" THEN <<content[1]>> ELSE <<>>)
         \o ToolCalls(Tail(content))

\* The contents a model response may carry, before the service numbers the
\* tool calls.
Contents ==
    { <<>>,
      <<Ta>>,
      <<Ta, Tb>>,
      <<Ta, Run(SnPrint)>>,
      <<RunNoGoal(SnChart), Ta, Run(SnFault)>>,
      <<Run(SnHang)>>,
      <<OtherTool(SnPrint)>>,
      <<Run(SnPrint), OtherNoCode>> }

ParContents == { <<Ta>>, <<Run(SnChart)>>, <<Run(SnPrint)>> }

Response(stop, content) == [stop_reason |-> stop, content |-> content]

\* "end_turn" comes with text and, at times, with a tool call; "tool_use" comes
\* with the contents that hold a tool call; "max_tokens" stands for the other
\* stop reasons.
Responses ==
    {Response("end_turn", c) : c \in {<<>>, <<Ta>>, <<Ta, Tb>>, <<Ta, Run(SnPrint)>>}}
    \cup {Response("tool_use", c) : c \in {k \in Contents : ToolCalls(k) /= <<>>}}
    \cup {Response("max_tokens", c) : c \in {<<>>, <<Ta>>, <<Ta, Run(SnPrint)>>}}

ParResponses ==
    {Response("end_turn", <<Ta>>)}
    \cup {Response("tool_use", c) : c \in ParContents \ {<<Ta>>}}

\* Two responses that differ in the "goal" of their tool call and in nothing
\* else, for two sessions to receive side by side.
GoalResponses ==
    { Response("end_turn", <<Ta>>),
      Response("tool_use", <<Run(SnPrint)>>),
      Response("tool_use", <<RunNoGoal(SnPrint)>>) }

\* The responses given to a console run and a chat session side by side: the
\* final answer, calls whose text is the same from both executors, and a call
\* whose text differs between them.
EquivResponses ==
    { Response("end_turn", <<Ta>>),
      Response("tool_use", <<Ta, Run(SnPrint)>>),
      Response("tool_use", <<Run(SnFault)>>) }

\* The responses of the runs checked for progress: a snippet that never ends
\* on its own, after a text block; a snippet that ends, before a call without
\* "code"; and the final answer.
LiveResponses ==
    { Response("end_turn", <<Ta>>),
      Response("tool_use", <<Ta, Run(SnHang)>>),
      Response("tool_use", <<Run(SnPrint), OtherNoCode>>) }

\* The model service gives every tool call an id of its own: here the number
\* of the request and the place of the block in the response.
WithIds(r, n) ==
    [r EXCEPT !.content =
        [i \in 1..Len(r.content) |->
            IF r.content[i].type = "tool_use"
            THEN [r.content[i] EXCEPT !.id = 10 * n + i]
            ELSE r.content[i]]]

NoResponse == Response("none", <<>>)

\* Turns of a conversation ("messages").
UserTurn(q) ==
    [role |-> "user", kind |-> "question", text |-> q,
     content |-> <<>>, results |-> <<>>]
AssistantTurn(content) ==
    [role |-> "assistant", kind |-> "assistant", text |-> "",
     content |-> content, results |-> <<>>]
ToolResultTurn(results) ==
    [role |-> "user", kind |-> "tool_results", text |-> "",
     content |-> <<>>, results |-> results]

ToolResult(id, content) ==
    [type |-> "tool_result", tool_use_id |-> id, content |-> content]

Question(n) == IF n = 1 THEN "q1" ELSE IF n = 2 THEN "q2" ELSE "q3"

\* "".join(b.text for b in response.content if hasattr(b, "text"))
RECURSIVE JoinTextSpaced(_)
JoinTextSpaced(content) ==
    IF Len(content) = 0 THEN <<>>
    ELSE (IF content[1].type = "text" THEN content[1].text \o <<" ">> ELSE <<>>)
         \o JoinTextSpaced(Tail(content))
RECURSIVE JoinText(_)
JoinText(content) ==
    IF Len(content) = 0 THEN <<>>
    ELSE (IF content[1].type = "text" THEN content[1].text ELSE <<>>)
         \o JoinText(Tail(content))

\* ------------------------------------------------------------- state

Procs == {"cli", "s1", "s2"}
\* "cli" is the process of agent.py; "s1", "s2" are chat sessions of app.py.
Kind(p) == IF p = "cli" THEN "agent" ELSE "app"

VARIABLES
    cfg,          \* what is running: agent.py, app.py with one session, app.py with two
    pc,           \* where each orchestrator is
    stored,       \* cl.user_session "messages" of each session
    messages,     \* the local list `messages` of the running step
    response,     \* the model response being processed
    idx,          \* place of the block the tool loop looks at
    tool_results, \* the local list `tool_results`
    child,        \* the sandbox child process of the current execute_python call
    live,         \* child processes started and neither exited nor killed
    chartFile,    \* output.png in the working directory: absent, or who wrote it
    output,       \* what execute_python returned: the text
    artifact,     \* what execute_python returned: the chart path or None
    shown,        \* the chart file the chat displayed at the last presentation
    final,        \* what run_agent returned
    outcome,      \* how the last step of each orchestrator ended
    nreq,         \* model requests issued over the session
    nq,           \* questions asked over the session
    nruns,        \* sandbox runs started by the orchestrator
    requests,     \* model requests of the current step
    rounds,       \* tool-result turns appended in the current step
    spawns,       \* child processes started in the current step
    resps,        \* the responses received in the current step
    before,       \* the stored conversation when the current step began
    lastRun,      \* how the last execute_python call ended
    rst,          \* the resets of each session: how many, after which question,
                  \* and whether a model request has been sent since the last
    fmtOut,       \* SpecFmt: the captured standard output
    fmtErr,       \* SpecFmt: the captured standard error
    fmtRes,       \* SpecFmt: what each executor makes of them
    cmp           \* SpecCmp: a run of agent.py's main or of compare_prompts

vars == <<cfg, pc, stored, messages, response, idx, tool_results, child, live,
          chartFile, output, artifact, shown, final, outcome, nreq, nq, nruns,
          requests, rounds, spawns, resps, before, lastRun, rst,
          fmtOut, fmtErr, fmtRes, cmp>>

orchVars == <<cfg, pc, stored, messages, response, idx, tool_results, child, live,
          chartFile, output, artifact, shown, final, outcome, nreq, nq, nruns,
          requests, rounds, spawns, resps, before, lastRun, rst>>
fmtVars == <<fmtOut, fmtErr, fmtRes>>
cmpVars == <<cmp>>

Active == IF cfg \in {"agent", "livecli"} THEN {"cli"}
          ELSE IF cfg \in {"app", "reset", "liveapp"} THEN {"s1"}
          ELSE IF cfg \in {"par", "goal"} THEN {"s1", "s2"}
          ELSE IF cfg = "equiv" THEN {"cli", "s1"}
          ELSE {}

RequestLimit == IF cfg \in {"par", "goal", "equiv"} THEN MaxParRequests ELSE MaxRequests
QuestionLimit == IF cfg \in {"par", "goal", "equiv"} THEN 1 ELSE MaxQuestions
Menu == IF cfg \in {"par", "reset"} THEN ParResponses
        ELSE IF cfg = "goal" THEN GoalResponses
        ELSE IF cfg \in {"livecli", "liveapp"} THEN LiveResponses
        ELSE IF cfg = "equiv" THEN EquivResponses
        ELSE Responses
ResetLimit == IF cfg \in {"reset", "liveapp"} THEN MaxResets ELSE 0

NoFile == [by |-> "nobody", run |-> 0]
NoChild == [state |-> "none", code |-> NoSnippet, out |-> <<>>, err |-> <<>>, run |-> 0]
NoRun == [exit |-> "none", code |-> NoSnippet, stale |-> FALSE, run |-> 0, id |-> 0]
NoRst == [n |-> 0, q |-> 0, sent |-> FALSE]
NoFmt == [done |-> FALSE, agent |-> <<>>, app |-> <<>>]
NoCmp == [caller |-> "none", versions |-> <<>>, questions |-> 0, q |-> 0, v |-> 0,
          at |-> "none", prompt |-> "", runs |-> 0]

InitOrch ==
    /\ pc = [p \in Procs |-> "idle"]
    /\ stored = [p \in Procs |-> <<>>]
    /\ messages = [p \in Procs |-> <<>>]
    /\ response = [p \in Procs |-> NoResponse]
    /\ idx = [p \in Procs |-> 0]
    /\ tool_results = [p \in Procs |-> <<>>]
    /\ child = [p \in Procs |-> NoChild]
    /\ live = [p \in Procs |-> 0]
    /\ chartFile = NoFile
    /\ output = [p \in Procs |-> <<>>]
    /\ artifact = [p \in Procs |-> FALSE]
    /\ shown = [p \in Procs |-> [run |-> 0, file |-> NoFile]]
    /\ final = [p \in Procs |-> <<>>]
    /\ outcome = [p \in Procs |-> "none"]
    /\ nreq = [p \in Procs |-> 0]
    /\ nq = [p \in Procs |-> 0]
    /\ nruns = [p \in Procs |-> 0]
    /\ requests = [p \in Procs |-> 0]
    /\ rounds = [p \in Procs |-> 0]
    /\ spawns = [p \in Procs |-> 0]
    /\ resps = [p \in Procs |-> <<>>]
    /\ before = [p \in Procs |-> <<>>]
    /\ lastRun = [p \in Procs |-> NoRun]
    /\ rst = [p \in Procs |-> NoRst]

Init ==
    /\ cfg \in {"agent", "app", "par", "reset", "goal", "equiv"}
    /\ InitOrch
    /\ fmtOut = <<>> /\ fmtErr = <<>> /\ fmtRes = NoFmt
    /\ cmp = NoCmp

InitFmt ==
    /\ cfg = "fmt"
    /\ InitOrch
    /\ fmtOut \in StrsUpTo(MaxOut)
    /\ fmtErr \in StrsUpTo(MaxErr)
    /\ fmtRes = NoFmt
    /\ cmp = NoCmp

\* ------------------------------------------------------------- formatting

\* One run of both executors' formatting on the same captured streams.
Format ==
    /\ cfg = "fmt"
    /\ ~fmtRes.done
    /\ fmtRes' = [done |-> TRUE,
                  agent |-> AgentOutput(fmtOut, fmtErr),
                  app |-> AppOutput(fmtOut, fmtErr)]
    /\ UNCHANGED <<fmtOut, fmtErr>>
    /\ UNCHANGED <<orchVars, cmpVars>>

NextFmt == Format
SpecFmt == InitFmt /\ [][NextFmt]_vars

\* ------------------------------------------------------------- prompt versions

\* The modules of prompts/, and the version keys a caller may ask for (the
\* defaults of compare.py name "v1_basic", which prompts/ does not hold).
PromptModules == {"v2_structured", "v3_analytical", "v4_professional"}
PromptKeys == {"v1_basic", "v2_structured", "v3_analytical"}

RECURSIVE KeyListsOfLen(_)
KeyListsOfLen(n) == IF n = 0 THEN {<<>>}
                    ELSE {Append(s, k) : s \in KeyListsOfLen(n - 1), k \in PromptKeys}

\* load_prompt: __import__("prompts." + version) raises for a key without a
\* module; otherwise the module's SYSTEM_PROMPT is returned.
load_prompt(version) ==
    IF version \in PromptModules
    THEN [raised |-> FALSE, prompt |-> version]
    ELSE [raised |-> TRUE, prompt |-> ""]

\* agent.py main is given one version and a number of questions;
\* compare_prompts is given a list of versions and a list of questions.
InitCmp ==
    /\ cfg = "cmp"
    /\ InitOrch
    /\ fmtOut = <<>> /\ fmtErr = <<>> /\ fmtRes = NoFmt
    /\ \E caller \in {"main", "compare"} :
       \E n \in 1..MaxVersions : \E vs \in KeyListsOfLen(n) :
       \E k \in 1..MaxCmpQuestions :
          /\ caller = "main" => n = 1
          /\ cmp = [caller |-> caller, versions |-> vs, questions |-> k,
                    q |-> 1, v |-> 1, at |-> "load", prompt |-> "", runs |-> 0]

\* main: system_prompt = load_prompt(args.prompt), before the first question.
MainLoadPrompt ==
    /\ cmp.caller = "main"
    /\ cmp.at = "load"
    /\ LET r == load_prompt(cmp.versions[1])
       IN  cmp' = [cmp EXCEPT !.at = IF r.raised THEN "raised" ELSE "run",
                              !.prompt = r.prompt]
    /\ UNCHANGED <<orchVars, fmtVars>>

\* main: run_agent(question, system_prompt, ...), once per question.
MainRunAgent ==
    /\ cmp.caller = "main"
    /\ cmp.at = "run"
    /\ cmp' = [cmp EXCEPT !.runs = cmp.runs + 1,
                          !.q = cmp.q + 1,
                          !.at = IF cmp.q = cmp.questions THEN "done" ELSE "run"]
    /\ UNCHANGED <<orchVars, fmtVars>>

\* compare_prompts: prompt = load_prompt(version), inside both loops.
CompareLoadPrompt ==
    /\ cmp.caller = "compare"
    /\ cmp.at = "load"
    /\ LET r == load_prompt(cmp.versions[cmp.v])
       IN  cmp' = [cmp EXCEPT !.at = IF r.raised THEN "raised" ELSE "run",
                              !.prompt = r.prompt]
    /\ UNCHANGED <<orchVars, fmtVars>>

\* compare_prompts: response = run_agent(question, prompt, ...), then the next
\* version, or the next question, or the end of the loops.
CompareRunAgent ==
    /\ cmp.caller = "compare"
    /\ cmp.at = "run"
    /\ LET lastV == cmp.v = Len(cmp.versions)
           lastQ == cmp.q = cmp.questions
       IN  cmp' = [cmp EXCEPT !.runs = cmp.runs + 1,
                              !.v = IF lastV THEN 1 ELSE cmp.v + 1,
                              !.q = IF lastV THEN cmp.q + 1 ELSE cmp.q,
                              !.at = IF lastV /\ lastQ THEN "done" ELSE "load"]
    /\ UNCHANGED <<orchVars, fmtVars>>

NextCmp ==
    \/ MainLoadPrompt
    \/ MainRunAgent
    \/ CompareLoadPrompt
    \/ CompareRunAgent

SpecCmp == InitCmp /\ [][NextCmp]_vars

\* ------------------------------------------------------------- the loop

Upd(f, p, v) == [f EXCEPT ![p] = v]

Block(p) == response[p].content[idx[p]]

\* execute_python calls subprocess.run, which does not return before the child
\* has exited or been killed; and it is a plain (not awaited) call, so in the
\* chat server, whose sessions share one event loop, no other session's
\* handler runs while one session waits for its child.
Blocked(p) ==
    /\ Kind(p) = "app"
    /\ \E q \in Active \ {p} : Kind(q) = "app" /\ pc[q] = "wait"

\* if response.stop_reason == "end_turn"
IsDone(resp) == resp.stop_reason = "end_turn"

\* tool_results.append({"type": "tool_result", "tool_use_id": block.id, "content": result})
AddResultFront(results, block, text) ==
    <<ToolResult(block.id, text)>> \o results
AddResult(results, block, text) ==
    Append(results, ToolResult(block.id, text))

\* on_message / run_agent: a question arrives; the first model request is sent.
\* app.py starts from the session's list and appends to that very list (from a
\* new empty list, stored at once, when the message uploads a dataset);
\* run_agent starts from a new list.
Ask(p) ==
    /\ p \in Active
    /\ pc[p] = "idle"
    /\ ~Blocked(p)
    /\ nq[p] < QuestionLimit
    /\ nreq[p] < RequestLimit
    /\ \E upload \in (IF Kind(p) = "app" /\ rst[p].n < ResetLimit
                       THEN BOOLEAN ELSE {FALSE}) :
       LET q == UserTurn(Question(nq[p] + 1))
           base == IF upload THEN <<>> ELSE stored[p]
       IN  /\ IF Kind(p) = "app"
              THEN /\ messages' = Upd(messages, p, Append(base, q))
                   /\ stored' = Upd(stored, p, Append(base, q))
              ELSE /\ messages' = Upd(messages, p, <<q>>)
                   /\ stored' = stored
           /\ before' = Upd(before, p, base)
           /\ rst' = Upd(rst, p, IF upload
                                 THEN [n |-> rst[p].n + 1, q |-> nq[p], sent |-> TRUE]
                                 ELSE [rst[p] EXCEPT !.sent = rst[p].n > 0])
    /\ nq' = Upd(nq, p, nq[p] + 1)
    /\ nreq' = Upd(nreq, p, nreq[p] + 1)
    /\ requests' = Upd(requests, p, 1)
    /\ rounds' = Upd(rounds, p, 0)
    /\ spawns' = Upd(spawns, p, 0)
    /\ resps' = Upd(resps, p, <<>>)
    /\ outcome' = Upd(outcome, p, "running")
    /\ final' = Upd(final, p, <<>>)
    /\ response' = Upd(response, p, NoResponse)
    /\ pc' = Upd(pc, p, "await_model")
    /\ UNCHANGED <<cfg, idx, tool_results, child, live, chartFile, output,
                   artifact, shown, nruns, lastRun>>
    /\ UNCHANGED <<fmtVars, cmpVars>>

\* The model service fails.  app.py catches anthropic.APIError, reports it and
\* returns; run_agent catches nothing, and neither does agent.py's main.
ModelError(p) ==
    /\ p \in Active
    /\ pc[p] = "await_model"
    /\ ~Blocked(p)
    /\ pc' = Upd(pc, p, IF Kind(p) = "app" THEN "idle" ELSE "crashed")
    /\ outcome' = Upd(outcome, p, "api_error")
    /\ UNCHANGED <<cfg, stored, messages, response, idx, tool_results, child,
                   live, chartFile, output, artifact, shown, final, nreq, nq,
                   nruns, requests, rounds, spawns, resps, before, lastRun>>
    /\ UNCHANGED <<rst, fmtVars, cmpVars>>

\* The model service answers.  On "end_turn" the step returns: run_agent
\* returns the joined text, app.py appends the assistant turn and stores the
\* list.  On any other stop reason the tool loop starts.
ModelRespond(p) ==
    /\ p \in Active
    /\ pc[p] = "await_model"
    /\ ~Blocked(p)
    /\ \E r \in Menu :
        LET resp == WithIds(r, nreq[p]) IN
        /\ response' = Upd(response, p, resp)
        /\ resps' = Upd(resps, p, Append(resps[p], resp))
        /\ IF IsDone(resp)
           THEN /\ pc' = Upd(pc, p, "idle")
                /\ outcome' = Upd(outcome, p, "returned")
                /\ IF Kind(p) = "app"
                   THEN /\ messages' = Upd(messages, p,
                                Append(messages[p], AssistantTurn(resp.content)))
                        /\ stored' = Upd(stored, p,
                                Append(messages[p], AssistantTurn(resp.content)))
                        /\ final' = final
                   ELSE /\ final' = Upd(final, p, JoinText(resp.content))
                        /\ UNCHANGED <<messages, stored>>
                /\ UNCHANGED <<idx, tool_results>>
           ELSE /\ pc' = Upd(pc, p, "tools")
                /\ idx' = Upd(idx, p, 1)
                /\ tool_results' = Upd(tool_results, p, <<>>)
                /\ UNCHANGED <<outcome, messages, stored, final>>
    /\ UNCHANGED <<cfg, child, live, chartFile, output, artifact, shown, nreq,
                   nq, nruns, requests, rounds, spawns, before, lastRun>>
    /\ UNCHANGED <<rst, fmtVars, cmpVars>>

AtBlock(p) ==
    /\ p \in Active
    /\ pc[p] = "tools"
    /\ ~Blocked(p)
    /\ idx[p] <= Len(response[p].content)

\* for block in response.content: a text block starts no execution.
SkipText(p) ==
    /\ AtBlock(p)
    /\ Block(p).type /= "tool_use"
    /\ idx' = Upd(idx, p, idx[p] + 1)
    /\ UNCHANGED <<cfg, pc, stored, messages, response, tool_results, child,
                   live, chartFile, output, artifact, shown, final, outcome,
                   nreq, nq, nruns, requests, rounds, spawns, resps, before,
                   lastRun>>
    /\ UNCHANGED <<rst, fmtVars, cmpVars>>

\* block.input["code"] on an input without "code": KeyError, which nothing in
\* the loop catches.  agent.py ends; the chat server drops the handler.
ToolKeyError(p) ==
    /\ AtBlock(p)
    /\ Block(p).type = "tool_use"
    /\ ~Block(p).input.hasCode
    /\ pc' = Upd(pc, p, IF Kind(p) = "app" THEN "idle" ELSE "crashed")
    /\ outcome' = Upd(outcome, p, "exception")
    /\ UNCHANGED <<cfg, stored, messages, response, idx, tool_results, child,
                   live, chartFile, output, artifact, shown, final, nreq, nq,
                   nruns, requests, rounds, spawns, resps, before, lastRun>>
    /\ UNCHANGED <<rst, fmtVars, cmpVars>>

\* ------------------------------------------------------------- the executor

\* if chart_path.exists(): chart_path.unlink()
KeepStale(file) == file
DeleteStale(file) == NoFile

\* chart = str(chart_path) if chart_path.exists() else None
ChartOf(file) == file /= NoFile

\* subprocess.run(...) returns only when the child is gone: the caller waits.
AfterSpawnNoWait == "tools"
AfterSpawn == "wait"

\* except subprocess.TimeoutExpired: the fixed text, nothing of the streams.
TimeoutKeepsOutput(kind, out, err) ==
    IF kind = "app" THEN AppOutput(out, err) ELSE AgentOutput(out, err)
TimeoutResult(kind, out, err) ==
    IF kind = "app" THEN AppTimeoutText ELSE AgentTimeoutText

\* The text of a run whose child exited.
ExitResult(kind, out, err) ==
    IF kind = "app" THEN AppOutput(out, err) ELSE AgentOutput(out, err)

\* block.input["code"]: the code handed to execute_python.  "goal" is read
\* for the label of the step only.
CodeIfGoal(block) == IF block.input.hasGoal THEN block.input.code ELSE NoSnippet
CodeOf(block) == block.input.code

CanExec(p) ==
    /\ AtBlock(p)
    /\ Block(p).type = "tool_use"
    /\ Block(p).input.hasCode

\* execute_python up to the start of the child: app.py first removes a chart
\* file left in the working directory.
ExecStart(p) ==
    /\ CanExec(p)
    /\ chartFile' = IF Kind(p) = "app" THEN DeleteStale(chartFile) ELSE chartFile
    /\ child' = Upd(child, p, [state |-> "running", code |-> CodeOf(Block(p)),
                               out |-> <<>>, err |-> <<>>, run |-> nruns[p] + 1])
    /\ lastRun' = Upd(lastRun, p,
            [exit |-> "running", code |-> CodeOf(Block(p)),
             stale |-> (Kind(p) = "app" /\ chartFile /= NoFile),
             run |-> nruns[p] + 1, id |-> Block(p).id])
    /\ live' = Upd(live, p, live[p] + 1)
    /\ nruns' = Upd(nruns, p, nruns[p] + 1)
    /\ spawns' = Upd(spawns, p, spawns[p] + 1)
    /\ pc' = Upd(pc, p, AfterSpawn)
    /\ UNCHANGED <<cfg, stored, messages, response, idx, tool_results, output,
                   artifact, shown, final, outcome, nreq, nq, requests, rounds,
                   resps, before>>
    /\ UNCHANGED <<rst, fmtVars, cmpVars>>

\* The child runs the wrapper and the snippet: it writes its streams and the
\* chart file, then exits, or keeps running.
ChildRun(p) ==
    /\ p \in Active
    /\ child[p].state = "running"
    /\ child' = Upd(child, p,
            [child[p] EXCEPT !.state = IF child[p].code.hang THEN "hung" ELSE "exited",
                             !.out = child[p].code.out,
                             !.err = child[p].code.err])
    /\ chartFile' = IF child[p].code.chart
                    THEN [by |-> p, run |-> child[p].run]
                    ELSE chartFile
    /\ live' = Upd(live, p, IF child[p].code.hang THEN live[p] ELSE live[p] - 1)
    /\ UNCHANGED <<cfg, pc, stored, messages, response, idx, tool_results,
                   output, artifact, shown, final, outcome, nreq, nq, nruns,
                   requests, rounds, spawns, resps, before, lastRun>>
    /\ UNCHANGED <<rst, fmtVars, cmpVars>>

\* timeout=30: subprocess.run kills the child that is still running.
ChildNeverKilled(p) ==
    /\ p \in Active
    /\ child[p].state = "hung"
    /\ UNCHANGED vars
ChildTimeout(p) ==
    /\ p \in Active
    /\ child[p].state = "hung"
    /\ child' = Upd(child, p, [child[p] EXCEPT !.state = "killed"])
    /\ live' = Upd(live, p, live[p] - 1)
    /\ UNCHANGED <<cfg, pc, stored, messages, response, idx, tool_results,
                   chartFile, output, artifact, shown, final, outcome, nreq, nq,
                   nruns, requests, rounds, spawns, resps, before, lastRun>>
    /\ UNCHANGED <<rst, fmtVars, cmpVars>>

\* What the caller does with execute_python's return value: run_agent appends
\* the tool result at once; app.py leaves the cl.Step (an await) first.
Returned(p, text, chart, exit) ==
    /\ output' = Upd(output, p, text)
    /\ artifact' = Upd(artifact, p, chart)
    /\ lastRun' = Upd(lastRun, p, [lastRun[p] EXCEPT !.exit = exit])
    /\ IF Kind(p) = "app"
       THEN /\ pc' = Upd(pc, p, "present")
            /\ UNCHANGED <<idx, tool_results>>
       ELSE /\ pc' = Upd(pc, p, "tools")
            /\ tool_results' = Upd(tool_results, p,
                                   AddResult(tool_results[p], Block(p), text))
            /\ idx' = Upd(idx, p, idx[p] + 1)

\* subprocess.run returns or raises TimeoutExpired; execute_python returns.
ExecReturn(p) ==
    /\ p \in Active
    /\ pc[p] = "wait"
    /\ child[p].state \in {"exited", "killed"}
    /\ IF child[p].state = "killed"
       THEN Returned(p, TimeoutResult(Kind(p), child[p].out, child[p].err),
                     FALSE, "killed")
       ELSE Returned(p, ExitResult(Kind(p), child[p].out, child[p].err),
                     Kind(p) = "app" /\ ChartOf(chartFile), "exited")
    /\ child' = Upd(child, p, NoChild)
    /\ UNCHANGED <<cfg, stored, messages, response, live, chartFile, shown,
                   final, outcome, nreq, nq, nruns, requests, rounds, spawns,
                   resps, before>>
    /\ UNCHANGED <<rst, fmtVars, cmpVars>>

\* except Exception as e: the child could not be started.
ExecSpawnRaises(p) ==
    /\ CanExec(p)
    /\ lastRun' = Upd(lastRun, p,
            [exit |-> "spawn_failed", code |-> Block(p).input.code,
             stale |-> FALSE, run |-> 0, id |-> Block(p).id])
    /\ pc' = Upd(pc, p, IF Kind(p) = "app" THEN "idle" ELSE "crashed")
    /\ outcome' = Upd(outcome, p, "exception")
    /\ UNCHANGED <<cfg, stored, messages, response, idx, tool_results, child,
                   live, chartFile, output, artifact, shown, final, nreq, nq,
                   nruns, requests, rounds, spawns, resps, before>>
    /\ UNCHANGED <<rst, fmtVars, cmpVars>>
ExecSpawnFail(p) ==
    /\ CanExec(p)
    /\ chartFile' = IF Kind(p) = "app" THEN DeleteStale(chartFile) ELSE chartFile
    /\ lastRun' = Upd(lastRun, p,
            [exit |-> "spawn_failed", code |-> CodeOf(Block(p)),
             stale |-> (Kind(p) = "app" /\ chartFile /= NoFile),
             run |-> 0, id |-> Block(p).id])
    /\ output' = Upd(output, p, IF Kind(p) = "app" THEN AppErrorText ELSE AgentErrorText)
    /\ artifact' = Upd(artifact, p, FALSE)
    /\ IF Kind(p) = "app"
       THEN /\ pc' = Upd(pc, p, "present")
            /\ UNCHANGED <<idx, tool_results>>
       ELSE /\ pc' = pc
            /\ tool_results' = Upd(tool_results, p,
                                   AddResult(tool_results[p], Block(p), AgentErrorText))
            /\ idx' = Upd(idx, p, idx[p] + 1)
    /\ UNCHANGED <<cfg, stored, messages, response, child, live, shown, final,
                   outcome, nreq, nq, nruns, requests, rounds, spawns, resps,
                   before>>
    /\ UNCHANGED <<rst, fmtVars, cmpVars>>

\* app.py, after the cl.Step: if chart_path, send the image at that path (the
\* file is read now), then append the tool result.
PresentNoResult(p) ==
    /\ p \in Active
    /\ pc[p] = "present"
    /\ ~Blocked(p)
    /\ idx' = Upd(idx, p, idx[p] + 1)
    /\ pc' = Upd(pc, p, "tools")
    /\ UNCHANGED <<cfg, stored, messages, response, child, live, chartFile,
                   output, artifact, final, outcome, nreq, nq, nruns, requests,
                   rounds, spawns, resps, before, lastRun, shown, tool_results>>
    /\ UNCHANGED <<rst, fmtVars, cmpVars>>
Present(p) ==
    /\ p \in Active
    /\ pc[p] = "present"
    /\ ~Blocked(p)
    /\ shown' = Upd(shown, p, IF artifact[p]
                              THEN [run |-> lastRun[p].run, file |-> chartFile]
                              ELSE [run |-> 0, file |-> NoFile])
    /\ tool_results' = Upd(tool_results, p,
                           AddResult(tool_results[p], Block(p), output[p]))
    /\ idx' = Upd(idx, p, idx[p] + 1)
    /\ pc' = Upd(pc, p, "tools")
    /\ UNCHANGED <<cfg, stored, messages, response, child, live, chartFile,
                   output, artifact, final, outcome, nreq, nq, nruns, requests,
                   rounds, spawns, resps, before, lastRun>>
    /\ UNCHANGED <<rst, fmtVars, cmpVars>>

\* The end of the for loop: both turns are appended (app.py stores the list)
\* and the next model request is sent.
FinishRound(p) ==
    /\ p \in Active
    /\ pc[p] = "tools"
    /\ ~Blocked(p)
    /\ idx[p] > Len(response[p].content)
    /\ nreq[p] < RequestLimit
    /\ LET new == messages[p] \o <<AssistantTurn(response[p].content),
                                   ToolResultTurn(tool_results[p])>>
       IN  /\ messages' = Upd(messages, p, new)
           /\ stored' = IF Kind(p) = "app" THEN Upd(stored, p, new) ELSE stored
    /\ rounds' = Upd(rounds, p, rounds[p] + 1)
    /\ requests' = Upd(requests, p, requests[p] + 1)
    /\ nreq' = Upd(nreq, p, nreq[p] + 1)
    /\ pc' = Upd(pc, p, "await_model")
    /\ UNCHANGED <<cfg, response, idx, tool_results, child, live, chartFile,
                   output, artifact, shown, final, outcome, nq, nruns, spawns,
                   resps, before, lastRun>>
    /\ rst' = Upd(rst, p, [rst[p] EXCEPT !.sent = rst[p].n > 0])
    /\ UNCHANGED <<fmtVars, cmpVars>>

\* reset_data: the session's data file and an empty list are stored.  The
\* callback runs whenever the event loop is free: between two steps, or while
\* a step of the session is suspended in one of its awaits.  The list the
\* suspended step holds in `messages` is not touched.
Reset(p) ==
    /\ p \in Active
    /\ Kind(p) = "app"
    /\ pc[p] \in {"idle", "await_model", "tools", "present"}
    /\ ~Blocked(p)
    /\ rst[p].n < ResetLimit
    /\ stored' = Upd(stored, p, <<>>)
    /\ rst' = Upd(rst, p, [n |-> rst[p].n + 1, q |-> nq[p], sent |-> FALSE])
    /\ UNCHANGED <<cfg, pc, messages, response, idx, tool_results, child, live,
                   chartFile, output, artifact, shown, final, outcome, nreq, nq,
                   nruns, requests, rounds, spawns, resps, before, lastRun>>
    /\ UNCHANGED <<fmtVars, cmpVars>>

Next ==
    \E p \in Procs :
        \/ Ask(p)
        \/ Reset(p)
        \/ ModelError(p)
        \/ ModelRespond(p)
        \/ SkipText(p)
        \/ ToolKeyError(p)
        \/ ExecStart(p)
        \/ ExecSpawnFail(p)
        \/ ChildRun(p)
        \/ ChildTimeout(p)
        \/ ExecReturn(p)
        \/ Present(p)
        \/ FinishRound(p)

Spec == Init /\ [][Next]_vars

\* Progress.  The operating system runs a child that can run; timeout=30 makes
\* subprocess.run kill a child that is still running when the time is up; and
\* subprocess.run, a plain call in the orchestrator's own thread, returns (or
\* raises TimeoutExpired) once the child is gone.
InitLive ==
    /\ cfg \in {"livecli", "liveapp"}
    /\ InitOrch
    /\ fmtOut = <<>> /\ fmtErr = <<>> /\ fmtRes = NoFmt
    /\ cmp = NoCmp

ExecutorFairness ==
    \A p \in Procs :
        /\ WF_vars(ChildRun(p))
        /\ WF_vars(ChildTimeout(p))
        /\ WF_vars(ExecReturn(p))

SpecLive == InitLive /\ [][Next]_vars /\ ExecutorFairness

\* ------------------------------------------------------------- properties

Last(s) == s[Len(s)]
HasToolCalls(resp) == ToolCalls(resp.content) /= <<>>
Prior(p) == SubSeq(response[p].content, 1, idx[p] - 1)

\* C1: the loop returns on a response exactly when that response carries
\* "end_turn" and holds no tool call; it does not return on a response that
\* holds tool calls before they have been executed and answered.
C1_ReturnsIffEndOfTurnWithoutCalls ==
    \A p \in Procs :
        resps[p] /= <<>> =>
            ( outcome[p] = "returned"
              <=> ( Last(resps[p]).stop_reason = "end_turn"
                    /\ ~HasToolCalls(Last(resps[p])) ) )

\* C2: every tool-result turn of a conversation follows the assistant turn it
\* answers and holds one result per tool call of that turn, in the order of the
\* calls, the i-th result carrying the i-th call's id.
AnswersInOrder(turns) ==
    \A i \in 1..Len(turns) :
        turns[i].kind = "tool_results" =>
            /\ i > 1
            /\ turns[i - 1].kind = "assistant"
            /\ LET calls == ToolCalls(turns[i - 1].content)
                   rs == turns[i].results
               IN  /\ Len(rs) = Len(calls)
                   /\ \A k \in 1..Len(rs) : rs[k].tool_use_id = calls[k].id

C2_OneResultPerCallInOrder ==
    \A p \in Procs : AnswersInOrder(messages[p]) /\ AnswersInOrder(stored[p])

\* C2 happens: a tool-result turn answers two calls that had text between them.
C2_Witness ==
    \E p \in Procs : \E i \in 2..Len(messages[p]) :
        /\ messages[p][i].kind = "tool_results"
        /\ Len(messages[p][i].results) = 2
        /\ Len(messages[p][i - 1].content) = 3
        /\ messages[p][i - 1].content[2].type = "text"
        /\ messages[p][i].results[1].tool_use_id /= messages[p][i].results[2].tool_use_id

\* C3: a session has at most one child process in flight, and while the child
\* of a tool call is in flight the orchestrator waits for it, holding the
\* collected result of every earlier tool call of the turn.
C3_OneChildAtATime ==
    \A p \in Procs :
        /\ live[p] <= 1
        /\ child[p].state \in {"running", "hung"} =>
              /\ live[p] = 1
              /\ pc[p] = "wait"
              /\ Len(tool_results[p]) = Len(ToolCalls(Prior(p)))

\* C3 happens: the child of the second tool call of a turn is in flight.
C3_Witness ==
    \E p \in Procs :
        /\ child[p].state = "running"
        /\ Len(ToolCalls(Prior(p))) = 1
        /\ Len(tool_results[p]) = 1

\* C4: a step that returned after responses that all held tool calls, but for
\* the last, returned on a response without tool calls, and made one request
\* per response and appended one tool-result turn per response before the last
\* (none, and no sandbox run, when the first response was the last).
C4_RequestsAndRoundsMatch ==
    \A p \in Procs :
        LET n == Len(resps[p]) IN
        ( /\ outcome[p] = "returned"
          /\ \A i \in 1..(n - 1) : HasToolCalls(resps[p][i]) )
        => /\ Last(resps[p]).stop_reason = "end_turn"
           /\ ~HasToolCalls(Last(resps[p]))
           /\ requests[p] = n
           /\ rounds[p] = n - 1
           /\ (n = 1 => spawns[p] = 0)

\* C5: no child process is started for a tool call whose name is not
\* "execute_python".
C5_UnknownToolNeverExecuted ==
    \A p \in Procs :
        pc[p] = "wait" => Block(p).name = "execute_python"

\* C6: after a step that ended with a model-service failure, the conversation
\* stored for the session is the one stored before the step began.
C6_FailedStepLeavesStateUnchanged ==
    \A p \in Procs :
        outcome[p] = "api_error" => stored[p] = before[p]

\* C7: a session never displays a chart file that another session wrote: the
\* file it displays, if there is one at the path, was written by the execution
\* whose artifact path it was handed.
C7_ShowsOwnChart ==
    \A p \in Procs :
        shown[p].run /= 0 =>
            /\ shown[p].file.by \in {p, "nobody"}
            /\ shown[p].file.by = p => shown[p].file.run = shown[p].run

\* C8: when app.py's execute_python returns from a child that exited, it
\* reports a chart exactly if this run's snippet wrote the chart file: a file
\* left by an earlier run is never reported.
C8_NoStaleArtifact ==
    \A p \in Procs :
        (pc[p] = "present" /\ lastRun[p].exit = "exited")
        => (artifact[p] <=> lastRun[p].code.chart)

\* C8 happens: a run found the chart file of an earlier run, its own snippet
\* wrote none, and it reports none.
C8_Witness ==
    \E p \in Procs :
        /\ pc[p] = "present"
        /\ lastRun[p].exit = "exited"
        /\ lastRun[p].stale
        /\ ~lastRun[p].code.chart
        /\ ~artifact[p]

TimeoutTextOf(p) == IF Kind(p) = "app" THEN AppTimeoutText ELSE AgentTimeoutText

\* The call of the last run is a block the tool loop has passed.
LastCallPassed(p) ==
    /\ pc[p] = "tools"
    /\ \E i \in 1..Len(Prior(p)) : Prior(p)[i].id = lastRun[p].id

\* C9: a run whose child was killed at the time limit returns the fixed timeout
\* text and no chart, whatever the child had written; the orchestrator appends
\* that text as the tool result of the call and the step goes on.
C9_TimeoutGivesFixedText ==
    \A p \in Procs :
        lastRun[p].exit = "killed" =>
            /\ output[p] = TimeoutTextOf(p)
            /\ ~artifact[p]
            /\ pc[p] \in {"present", "tools", "await_model", "idle", "crashed"}
            /\ LastCallPassed(p) =>
                  /\ tool_results[p] /= <<>>
                  /\ Last(tool_results[p]) = ToolResult(lastRun[p].id, TimeoutTextOf(p))
                  /\ outcome[p] = "running"

\* C9 happens: the killed child had written to both streams and saved the
\* chart, and the timeout text is the tool result of its call.
C9_Witness ==
    \E p \in Procs :
        /\ lastRun[p].exit = "killed"
        /\ lastRun[p].code.out /= <<>>
        /\ lastRun[p].code.err /= <<>>
        /\ lastRun[p].code.chart
        /\ chartFile = [by |-> p, run |-> lastRun[p].run]
        /\ LastCallPassed(p)
        /\ Last(tool_results[p]).content = TimeoutTextOf(p)

\* ------------------------------------------------------------- formatting claims

HasErrSection(text) == \E i \in 1..Len(text) : text[i] = "[stderr]: "

IsPrefix(a, b) == Len(a) <= Len(b) /\ SubSeq(b, 1, Len(a)) = a

\* The text is stdout, followed by nothing or by a delimited error section; or
\* it is the sentinel that stands in for a text of whitespace only.
StdoutThenSection(text, out) ==
    \/ text = out
    \/ IsPrefix(out \o StderrDelim, text) /\ Len(text) > Len(out) + Len(StderrDelim)
    \/ text = NoOutput /\ ~StripNonEmpty(out)

AnyCaseWarning(line) == \E i \in 1..Len(line) : line[i] \in {"w", "W"}

\* Some line of stderr is not empty and does not hold the word "warning".
HasReportedLine(err) ==
    \E i \in 1..Len(Split(err)) :
        Split(err)[i] /= <<>> /\ ~AnyCaseWarning(Split(err)[i])

\* C10, as stated: in both executors the text is stdout followed by an error
\* section, and the section is there exactly if stderr is not empty.
C10_SectionIffStderrNonEmpty ==
    fmtRes.done =>
        \A text \in {fmtRes.agent, fmtRes.app} :
            /\ StdoutThenSection(text, fmtOut)
            /\ HasErrSection(text) <=> fmtErr /= <<>>

\* C10, amended: the text is stdout followed by an error section (or the
\* sentinel); in agent.py the section is there exactly if stderr is not empty
\* and carries stderr whole; in app.py it is there exactly if some line of
\* stderr is not empty and does not hold "warning" in any letter case.
C10_SectionPerExecutor ==
    fmtRes.done =>
        /\ StdoutThenSection(fmtRes.agent, fmtOut)
        /\ StdoutThenSection(fmtRes.app, fmtOut)
        /\ HasErrSection(fmtRes.agent) <=> fmtErr /= <<>>
        /\ fmtErr /= <<>> => fmtRes.agent = fmtOut \o StderrDelim \o fmtErr
        /\ HasErrSection(fmtRes.app) <=> HasReportedLine(fmtErr)

\* C10 happens: stderr holds only warning lines, in upper and lower case;
\* agent.py reports it and app.py does not.
C10_Witness ==
    /\ fmtRes.done
    /\ fmtErr = <<"W", "\n", "w">>
    /\ HasErrSection(fmtRes.agent)
    /\ ~HasErrSection(fmtRes.app)

\* C11, as stated: with empty stderr the text of either executor is stdout
\* itself, and the sentinel stands in for the empty stdout only: a stdout of
\* blanks and newlines comes back unchanged.
C11_StdoutExactUnlessEmpty ==
    (fmtRes.done /\ fmtErr = <<>>) =>
        \A text \in {fmtRes.agent, fmtRes.app} :
            text = (IF fmtOut = <<>> THEN NoOutput ELSE fmtOut)

Blank(s) == \A i \in 1..Len(s) : s[i] = " " \/ s[i] = "\n"

\* C11, amended: with empty stderr the text of either executor is stdout
\* itself when stdout holds a character that is not whitespace, and the
\* sentinel when stdout is empty or holds whitespace only.
C11_StdoutExactUnlessBlank ==
    (fmtRes.done /\ fmtErr = <<>>) =>
        \A text \in {fmtRes.agent, fmtRes.app} :
            text = (IF Blank(fmtOut) THEN NoOutput ELSE fmtOut)

\* C11 happens: stdout is a blank and a newline, stderr is empty, and both
\* executors return the sentinel.
C11_Witness ==
    /\ fmtRes.done
    /\ fmtErr = <<>>
    /\ fmtOut = <<" ", "\n">>
    /\ fmtRes.agent = NoOutput
    /\ fmtRes.app = NoOutput

\* ------------------------------------------------------------- failures of the sandbox

\* The snippet raised: its stderr holds the traceback (the token "e").
IsFault(sn) == ~sn.hang /\ \E i \in 1..Len(sn.err) : sn.err[i] = "e"

ErrorTextOf(p) == IF Kind(p) = "app" THEN AppErrorText ELSE AgentErrorText

\* The results collected in the turn that answer the call `id`.
ResultsFor(p, id) ==
    {k \in 1..Len(tool_results[p]) : tool_results[p][k].tool_use_id = id}

C13_UnknownVersionBeforeAnyTurn ==
    cmp.at = "raised" => cmp.runs = 0

\* ------------------------------------------------------------- resets

\* The questions a session asked before its last reset.
AskedBeforeReset(p) == {Question(k) : k \in 1..rst[p].q}

\* C14: the turns of a model request sent after a reset of its session were
\* all produced after that reset: the request begins with a question asked
\* after the reset and holds no question asked before it.
C14_NoTurnFromBeforeReset ==
    \A p \in Procs :
        (rst[p].n > 0 /\ rst[p].sent /\ pc[p] = "await_model") =>
            /\ messages[p] /= <<>>
            /\ \A i \in 1..Len(messages[p]) :
                  messages[p][i].kind = "question"
                  => messages[p][i].text \notin AskedBeforeReset(p)

\* ------------------------------------------------------------- the conversation

\* A reset of the session took place since its last model request.
ResetSinceRequest(p) == rst[p].n > 0 /\ ~rst[p].sent

\* C15: between resets the conversation only grows and keeps every turn: the
\* turns sent with a model request begin with the turns of the session's
\* previous request, and when a step returns, the assistant turn that ended it
\* is the last turn of the conversation the next question starts from.
C15_AppendOnlyAccumulates ==
    [][\A p \in Procs :
          /\ ( /\ nreq'[p] = nreq[p] + 1
               /\ rst'[p].n = rst[p].n
               /\ ~ResetSinceRequest(p) )
             => IsPrefix(messages[p], messages'[p])
          /\ (outcome[p] = "running" /\ outcome'[p] = "returned")
             => /\ messages'[p] /= <<>>
                /\ Last(messages'[p]) = AssistantTurn(response'[p].content)
      ]_vars

\* C16: on a response whose stop reason is not "end_turn" the step does not
\* return and does not end: it works through the tool calls, and once it has
\* sent its next model request the conversation ends with the assistant turn
\* of that response followed by the tool-result turn answering its calls in
\* order.
C16_NonEndOfTurnRunsTools ==
    \A p \in Procs :
        (resps[p] /= <<>> /\ Last(resps[p]).stop_reason /= "end_turn") =>
            /\ outcome[p] \in {"running", "api_error"}
            /\ pc[p] /= "crashed" \/ outcome[p] = "api_error"
            /\ requests[p] > Len(resps[p]) =>
                  LET n == Len(messages[p])
                      calls == ToolCalls(Last(resps[p]).content)
                  IN  /\ n >= 3
                      /\ messages[p][n - 1] = AssistantTurn(Last(resps[p]).content)
                      /\ messages[p][n].kind = "tool_results"
                      /\ Len(messages[p][n].results) = Len(calls)
                      /\ \A k \in 1..Len(calls) :
                            messages[p][n].results[k].tool_use_id = calls[k].id

\* ------------------------------------------------------------- the final answer

IsText(b) == b.type = "text"
TextSegments(content) == SelectSeq(content, IsText)

RECURSIVE ConcatTexts(_)
ConcatTexts(blocks) ==
    IF blocks = <<>> THEN <<>>
    ELSE ConcatTexts(SubSeq(blocks, 1, Len(blocks) - 1)) \o Last(blocks).text

\* C17: what run_agent returns is the texts of the text blocks of the response
\* that ended the step, one after the other in their order, and nothing else:
\* no separator, and no text of an earlier response of the step.
C17_FinalIsTerminalText ==
    \A p \in Procs :
        (Kind(p) = "agent" /\ outcome[p] = "returned") =>
            final[p] = ConcatTexts(TextSegments(Last(resps[p]).content))

\* C17 happens: run_agent returned on a response with two text blocks, after
\* a response that held a text block and a tool call.
C17_Witness ==
    \E p \in Procs :
        /\ Kind(p) = "agent"
        /\ outcome[p] = "returned"
        /\ Len(resps[p]) = 2
        /\ TextSegments(resps[p][1].content) /= <<>>
        /\ Len(TextSegments(resps[p][2].content)) = 2
        /\ final[p] = <<"a", "b">>

\* ------------------------------------------------------------- the goal argument

\* Two tool calls that differ in their goal (one may have none) and in nothing
\* else.
SameButGoal(a, b) ==
    /\ a.type = "tool_use" /\ b.type = "tool_use"
    /\ a.id = b.id /\ a.name = b.name
    /\ a.input.hasCode = b.input.hasCode /\ a.input.code = b.input.code
    /\ a.input.hasGoal /= b.input.hasGoal \/ a.input.goal /= b.input.goal

\* Two chat sessions each received, as the first response, one tool call; the
\* calls differ in the goal only; the sandbox treated both runs alike; both
\* sessions have appended their turns and sent the next request.
GoalPair(p, q) ==
    /\ p /= q /\ Kind(p) = Kind(q)
    /\ pc[p] = "await_model" /\ pc[q] = "await_model"
    /\ requests[p] = 2 /\ requests[q] = 2
    /\ Len(resps[p][1].content) = 1 /\ Len(resps[q][1].content) = 1
    /\ SameButGoal(resps[p][1].content[1], resps[q][1].content[1])
    /\ lastRun[p].exit = lastRun[q].exit

\* The run of the call the loop is at, or has just left, was started with the
\* code of that call, and its text is made from that code's streams alone.
RunFollowsCode(p) ==
    /\ pc[p] \in {"wait", "present"} => lastRun[p].code = Block(p).input.code
    /\ child[p].state /= "none" => child[p].code = Block(p).input.code
    /\ (pc[p] = "present" /\ lastRun[p].exit = "exited") =>
          output[p] = ExitResult(Kind(p), Block(p).input.code.out,
                                 Block(p).input.code.err)

C19_NoEmptyToolResultTurn ==
    \A p \in Procs : \A turns \in {messages[p], stored[p]} :
        \A i \in 1..Len(turns) :
            turns[i].kind = "tool_results" => turns[i].results /= <<>>

\* The turns begin with a question, user-role and assistant turns alternate,
\* and an assistant turn that holds tool calls is followed at once by the
\* tool-result turn that answers them.
WellFormed(turns) ==
    /\ turns /= <<>> => turns[1].kind = "question"
    /\ \A i \in 1..(Len(turns) - 1) : turns[i].role /= turns[i + 1].role
    /\ \A i \in 1..Len(turns) :
          (turns[i].kind = "assistant" /\ ToolCalls(turns[i].content) /= <<>>) =>
              /\ i < Len(turns)
              /\ turns[i + 1].kind = "tool_results"
              /\ Len(turns[i + 1].results) = Len(ToolCalls(turns[i].content))

\* C20: the turns sent with every model request are well formed, also for the
\* second and later questions of a session and after a step that ended with a
\* failure of the model service.
C20_RequestsAreWellFormed ==
    \A p \in Procs :
        pc[p] = "await_model" => WellFormed(messages[p])

\* ------------------------------------------------------------- termination of the executor

\* execute_python has returned a text for the call it was waiting on.
ExecReturned(p) ==
    /\ pc[p] /= "wait"
    /\ lastRun[p].exit \in {"exited", "killed"}
    /\ output[p] /= <<>>

\* C21: an orchestrator that waits for the child of a tool call gets a text
\* back: the child exits, or is killed at the time limit, and execute_python
\* returns; no orchestrator waits forever.
C21_ExecutorReturns ==
    \A p \in Procs : (pc[p] = "wait") ~> ExecReturned(p)

\* C21 happens: the call of a snippet that never ends on its own has returned,
\* its child killed, with the timeout text.
C21_Witness ==
    \E p \in Procs :
        /\ lastRun[p].code.hang
        /\ lastRun[p].exit = "killed"
        /\ pc[p] \in {"present", "tools"}
        /\ output[p] = TimeoutTextOf(p)
        /\ child[p] = NoChild

\* ------------------------------------------------------------- the two loops

Min(a, b) == IF a <= b THEN a ELSE b

\* The executor texts two conversations hold at the same places are the same.
SameTexts(a, b) ==
    \A i \in 1..Min(Len(a), Len(b)) :
        \A k \in 1..Min(Len(a[i].results), Len(b[i].results)) :
            a[i].results[k].content = b[i].results[k].content

\* The console run and a chat session each answer their first question from
\* an empty conversation, have received the same responses and the same
\* executor texts, and are at the same point of the protocol.
SameInputs(p, q) ==
    /\ Kind(p) = "agent" /\ Kind(q) = "app"
    /\ nq[p] = 1 /\ nq[q] = 1
    /\ resps[p] = resps[q]
    /\ requests[p] = requests[q]
    /\ pc[p] \in {"await_model", "idle", "crashed"}
    /\ pc[q] \in {"await_model", "idle", "crashed"}
    /\ outcome[p] /= "api_error" /\ outcome[q] /= "api_error"
    /\ SameTexts(messages[p], messages[q])

\* The turns sent with the last model request of the step.
Sent(p) == SubSeq(messages[p], 1, 2 * requests[p] - 1)

\* C22: on the same inputs run_agent and on_message have sent the same model
\* requests, the last of them with the same turns (and so, the conversation
\* being extended from request to request, all of them), and one has returned
\* exactly if the other has: on the same response.
C22_LoopsSendSameRequests ==
    \A p, q \in Procs :
        SameInputs(p, q) =>
            /\ Len(messages[p]) >= 2 * requests[p] - 1
            /\ Len(messages[q]) >= 2 * requests[q] - 1
            /\ Sent(p) = Sent(q)
            /\ (outcome[p] = "returned") <=> (outcome[q] = "returned")

\* C22 happens: both loops answered a response with a text block and a tool
\* call, got the same text from their executors, and then returned on the
\* same final response.
C22_Witness ==
    \E p, q \in Procs :
        /\ SameInputs(p, q)
        /\ requests[p] = 2
        /\ Len(resps[p][1].content) = 2
        /\ outcome[p] = "returned" /\ outcome[q] = "returned"
        /\ messages[p][3].results[1].content = SnPrint.out
        /\ messages[q][3].results[1].content = SnPrint.out

====
